---- MODULE Spec2Model ----
(***************************************************************************)
(* Hybrid retrieval pipeline of the llama-indexer service.                 *)
(*                                                                         *)
(* services/retriever.py: normalize_scores, dedupe_and_blend and           *)
(* hybrid_search, together with the two retrieval clients it calls         *)
(* (clients/opensearch.py, clients/pinecone.py), which are external        *)
(* collaborators: a call either raises or returns a list of candidates.    *)
(*                                                                         *)
(* Numbers.  Python floats are modelled as exact fixed-point numbers.      *)
(*   raw score        an integer, in tenths (0.9 is 9, 10 is 100)          *)
(*   normalized score an integer in 0..Unit, Unit standing for 1.0         *)
(*   hybrid score     an integer in 0..10*Unit, 10*Unit standing for 1.0   *)
(*                    (the weights 0.6 and 0.4 are 6 and 4 tenths)         *)
(* Unit is a common multiple of every difference max - min the model can   *)
(* draw, so that (score - min) / (max - min) is exact.                     *)
(*                                                                         *)
(* Candidates.  A candidate dictionary is a record                         *)
(*   [doc_id, score, year, title]                                          *)
(* year is metadata.year: an integer, Null (the key is there and holds     *)
(* None, which is what both clients emit for a document without a year)    *)
(* or Absent (no metadata or no year key).  title stands for the fields    *)
(* that are copied along unchanged (title, snippet, chunk_id, source, the  *)
(* rest of metadata): it names the call and the position the entry came    *)
(* from, so that a result can be traced back to its entry.                 *)
(***************************************************************************)
EXTENDS Integers, Sequences, FiniteSets, TLC

VARIABLES
    pc,               \* position of the running call
    source_filter,    \* hybrid_search argument: NoFilter or a sequence of source names
    year_gte,         \* hybrid_search argument: NoYear or an integer
    top_k,            \* hybrid_search argument
    bm25_results,     \* lexical candidates (argument of dedupe_and_blend / local of hybrid_search)
    ann_results,      \* vector candidates (argument of dedupe_and_blend / local of hybrid_search)
    bm25_normed,      \* the lexical list as normalize_scores leaves it (score_norm added)
    ann_normed,       \* the vector list as normalize_scores leaves it
    blended,          \* the list dedupe_and_blend returned
    returned,         \* the list hybrid_search returned
    failed,           \* the retrieval calls of this hybrid_search call that raised
    answered,         \* what each retrieval call that returned has returned
    issued,           \* the retrieval requests issued so far, in order
    log,              \* logger entries written so far
    _model,           \* embeddings._model: NoModel or the instance the global holds
    load_log,         \* the SentenceTransformer(...) constructions so far, in order
    thread,           \* the callers of the embedding module: where each one stands
    encoded,          \* the model.encode calls so far: who called, and with which texts
    query,            \* generate_highlights argument
    document_text,    \* generate_highlights argument
    max_highlights,   \* generate_highlights argument
    sentences,        \* local of generate_highlights: the extracted sentences
    similarities,     \* local of generate_highlights: the similarity of each sentence
    top_indices,      \* local of generate_highlights: the positions it selected
    highlights,       \* the list generate_highlights returned
    history,          \* the generate_highlights calls that ended before the running one
    documents,        \* rerank_documents argument
    top_n,            \* rerank_documents argument
    response,         \* what the rerank API call did
    reranked,         \* the list rerank_documents returned
    input_text,       \* chunk_text argument `text`
    chunk_sentences,  \* local `sentences` of chunk_text
    position,         \* the place in chunk_sentences of the sentence the loop takes next
    current_chunk,    \* local of chunk_text: the buffered sentences
    current_length,   \* local of chunk_text: the length it counts for the buffer
    chunk_index,      \* local of chunk_text
    chunks            \* local of chunk_text: the list it returns

retrieverVars == << source_filter, year_gte, top_k, bm25_results, ann_results,
                    bm25_normed, ann_normed, blended, returned, failed,
                    answered, issued >>

embedderVars == << _model, load_log, thread, encoded >>

highlightVars == << query, document_text, max_highlights, sentences,
                    similarities, top_indices, highlights, history >>

rerankVars == << documents, top_n, response, reranked >>

chunkVars == << input_text, chunk_sentences, position, current_chunk, current_length,
               chunk_index, chunks >>

vars == << pc, log, retrieverVars, embedderVars, highlightVars, rerankVars,
           chunkVars >>

----------------------------------------------------------------------------
(* Bounds of the model *)

MaxScore == 1     \* raw scores of the blended lists are drawn from 0..MaxScore
MaxYear == 2      \* integer years are drawn from 1..MaxYear
MaxHits == 3      \* most candidates passed to one dedupe_and_blend call, both lists together
MaxRaw == 3       \* raw scores passed to a lone normalize_scores call are drawn from 0..MaxRaw
MaxNormLen == 3   \* longest list passed to a lone normalize_scores call
MaxAnswer == 2    \* most candidates the retrieval calls of one hybrid_search call return, together
MaxCallers == 2   \* callers of the embedding module that run at the same time
MaxPassages == 1  \* longest list passed to embed_passages
MaxTextLen == 5   \* longest document text passed to generate_highlights, in tokens
MaxSim == 2       \* similarities are drawn from 0..MaxSim
MaxDocs == 2      \* longest list passed to rerank_documents, and longest results list of a response
MaxRelevance == 1 \* relevance scores of a rerank response are drawn from 0..MaxRelevance
MaxChunkTokens == 7 \* longest text passed to chunk_text, in tokens

\* doc ids are opaque keys that the code only tests for equality: lists are
\* drawn up to renaming, the first new document being A, the next B, then C
DocOrder == << "A", "B", "C" >>
DocIds == {DocOrder[i] : i \in DOMAIN DocOrder}

Null == -1      \* Python None, where a year is expected
Absent == -2    \* the year key (or the whole metadata) is not in the dictionary

----------------------------------------------------------------------------
(* Program constants *)

BM25_WEIGHT == 6     \* 0.6, in tenths
ANN_WEIGHT == 4      \* 0.4, in tenths
BM25_TOP_K == 200
ANN_TOP_K == 200
MAX_HIGHLIGHTS == 3
MinSentenceLen == 10   \* extract_sentences keeps a sentence of more characters than this
TARGET_CHUNK_TOKENS == 512
STRIDE_TOKENS == 64
CHARS_PER_TOKEN == 4
TARGET_CHUNK_CHARS == TARGET_CHUNK_TOKENS * CHARS_PER_TOKEN
STRIDE_CHARS == STRIDE_TOKENS * CHARS_PER_TOKEN

----------------------------------------------------------------------------
(* The components a run does not exercise stay as they are constructed *)

NoModel == 0    \* _model = None: instances are numbered from 1, in load order

\* no rerank call has been made
NoResponse == [kind |-> "none", results |-> << >>]

\* the embeddings module as imported: no model, nobody calling
EmbedderIdle ==
    /\ _model = NoModel
    /\ load_log = << >>
    /\ thread = << >>
    /\ encoded = << >>

HighlighterIdle ==
    /\ query = << >>
    /\ document_text = << >>
    /\ max_highlights = 0
    /\ sentences = << >>
    /\ similarities = << >>
    /\ top_indices = << >>
    /\ highlights = << >>
    /\ history = << >>

RerankerIdle ==
    /\ documents = << >>
    /\ top_n = 0
    /\ response = NoResponse
    /\ reranked = << >>

\* no chunk_text call has been made
ChunkerIdle ==
    /\ input_text = << >>
    /\ chunk_sentences = << >>
    /\ position = 0
    /\ current_chunk = << >>
    /\ current_length = 0
    /\ chunk_index = 0
    /\ chunks = << >>

----------------------------------------------------------------------------
(* Arithmetic helpers *)

Max(S) == CHOOSE x \in S : \A y \in S : y <= x
Min(S) == CHOOSE x \in S : \A y \in S : x <= y

RECURSIVE Gcd(_, _)
Gcd(a, b) == IF b = 0 THEN a ELSE Gcd(b, a % b)

RECURSIVE LcmOf(_)
LcmOf(S) ==
    IF S = {} THEN 1
    ELSE LET d == CHOOSE x \in S : TRUE
             r == LcmOf(S \ {d})
         IN  (d * r) \div Gcd(d, r)

\* 0.9 - 0.5, in tenths: the spread of the vector list of the worked example
ExampleSpread == 9 - 5

Unit == LcmOf((1..MaxScore) \cup (1..MaxRaw) \cup {ExampleSpread})

Range(s) == {s[i] : i \in DOMAIN s}

Take(s, n) == SubSeq(s, 1, Min({n, Len(s)}))

----------------------------------------------------------------------------
(* Candidates *)

Scores == 0..MaxScore
Years == {Null, Absent} \cup (1..MaxYear)

\* a candidate before its call has stamped it: the fields the backend decides
Hit(d, s, y) == [doc_id |-> d, score |-> s, year |-> y]

\* lists of (doc_id, score) pairs, at most n long
PairLists(scores, n) == UNION {[1..k -> DocIds \X scores] : k \in 0..n}

DocsOf(pairs) == {pairs[i][1] : i \in DOMAIN pairs}

DocPos(d) == CHOOSE i \in DOMAIN DocOrder : DocOrder[i] = d

\* documents are named in the order in which they first occur
Canonical(pairs) ==
    \A i \in DOMAIN pairs :
        DocPos(pairs[i][1]) <= Cardinality({pairs[j][1] : j \in 1..(i - 1)}) + 1

\* a document has one publication year, which every hit of it carries; a
\* document that does not occur has none
YearMaps(docs, years) ==
    {yr \in [DocIds -> years \cup {Absent}] :
        \A d \in DocIds : d \notin docs => yr[d] = Absent}

WithYears(pairs, yr) ==
    [i \in DOMAIN pairs |-> Hit(pairs[i][1], pairs[i][2], yr[pairs[i][1]])]

\* the list a call hands over: entry i carries the tag <<call, i>> as its title
Stamp(hits, call) ==
    [i \in DOMAIN hits |->
        [doc_id |-> hits[i].doc_id, score |-> hits[i].score,
         year |-> hits[i].year, title |-> <<call, i>>]]

\* the worked example of the blender: lexical [A: 10], vector [A: 0.9, B: 0.5];
\* the dictionaries carry nothing but doc_id and score
ExampleLexical == << Hit("A", 100, Absent) >>
ExampleVector == << Hit("A", 9, Absent), Hit("B", 5, Absent) >>

----------------------------------------------------------------------------
(* normalize_scores *)

WithNorm(r, n) ==
    [doc_id |-> r.doc_id, score |-> r.score, year |-> r.year,
     title |-> r.title, score_norm |-> n]

\* scores are divided by the maximum instead of being scaled between min and max
normalize_scoresByMax(results) ==
    IF results = << >> THEN results
    ELSE LET max_score == Max({results[i].score : i \in DOMAIN results})
         IN  [i \in DOMAIN results |->
                 WithNorm(results[i],
                     IF max_score = 0 THEN Unit
                     ELSE (results[i].score * Unit) \div max_score)]

\* a list of equal scores is scaled to 0.0
normalize_scoresZeroWhenEqual(results) ==
    IF results = << >> THEN results
    ELSE LET scores == {results[i].score : i \in DOMAIN results}
             min_score == Min(scores)
             max_score == Max(scores)
         IN  [i \in DOMAIN results |->
                 WithNorm(results[i],
                     IF max_score = min_score THEN 0
                     ELSE ((results[i].score - min_score) * Unit)
                              \div (max_score - min_score))]

normalize_scores(results) ==
    IF results = << >> THEN results
    ELSE LET scores == {results[i].score : i \in DOMAIN results}
             min_score == Min(scores)
             max_score == Max(scores)
         IN  IF max_score = min_score
             THEN [i \in DOMAIN results |-> WithNorm(results[i], Unit)]
             ELSE [i \in DOMAIN results |->
                     WithNorm(results[i],
                         ((results[i].score - min_score) * Unit)
                             \div (max_score - min_score))]

----------------------------------------------------------------------------
(* dedupe_and_blend *)

\* doc_scores is a Python dict: a sequence of entries with distinct doc_id, in
\* the order in which the keys were first inserted
IndexOf(doc_scores, doc_id) ==
    CHOOSE i \in DOMAIN doc_scores : doc_scores[i].doc_id = doc_id

HasKey(doc_scores, doc_id) ==
    \E i \in DOMAIN doc_scores : doc_scores[i].doc_id = doc_id

Entry(r, bm25, ann, srcs) ==
    [doc_id |-> r.doc_id, score |-> r.score, year |-> r.year,
     title |-> r.title, score_norm |-> r.score_norm,
     bm25_score |-> bm25, ann_score |-> ann, sources |-> srcs]

\* every lexical hit becomes a result of its own
AddBm25Append(doc_scores, result) ==
    Append(doc_scores, Entry(result, result.score_norm, 0, << "bm25" >>))

\* doc_scores[doc_id] = {**result, "bm25_score": ..., "ann_score": 0.0, "sources": ["bm25"]}
AddBm25(doc_scores, result) ==
    LET e == Entry(result, result.score_norm, 0, << "bm25" >>)
    IN  IF HasKey(doc_scores, result.doc_id)
        THEN [doc_scores EXCEPT ![IndexOf(doc_scores, result.doc_id)] = e]
        ELSE Append(doc_scores, e)

\* a vector-only document is given its vector score as lexical score too
MergeAnnCopiesNorm(doc_scores, result) ==
    IF HasKey(doc_scores, result.doc_id)
    THEN LET i == IndexOf(doc_scores, result.doc_id)
         IN  [doc_scores EXCEPT
                 ![i].ann_score = result.score_norm,
                 ![i].sources = Append(@, "ann")]
    ELSE Append(doc_scores,
             Entry(result, result.score_norm, result.score_norm, << "ann" >>))

\* a later vector hit of a document only raises its ann_score
MergeAnnKeepsHighest(doc_scores, result) ==
    IF HasKey(doc_scores, result.doc_id)
    THEN LET i == IndexOf(doc_scores, result.doc_id)
         IN  [doc_scores EXCEPT
                 ![i].ann_score = Max({@, result.score_norm}),
                 ![i].sources = Append(@, "ann")]
    ELSE Append(doc_scores, Entry(result, 0, result.score_norm, << "ann" >>))

\* the body of the loop over ann_results
MergeAnn(doc_scores, result) ==
    IF HasKey(doc_scores, result.doc_id)
    THEN LET i == IndexOf(doc_scores, result.doc_id)
         IN  [doc_scores EXCEPT
                 ![i].ann_score = result.score_norm,
                 ![i].sources = Append(@, "ann")]
    ELSE Append(doc_scores, Entry(result, 0, result.score_norm, << "ann" >>))

RECURSIVE AddAllBm25(_, _)
AddAllBm25(doc_scores, results) ==
    IF results = << >> THEN doc_scores
    ELSE AddAllBm25(AddBm25(doc_scores, Head(results)), Tail(results))

RECURSIVE MergeAllAnn(_, _)
MergeAllAnn(doc_scores, results) ==
    IF results = << >> THEN doc_scores
    ELSE MergeAllAnn(MergeAnn(doc_scores, Head(results)), Tail(results))

\* the two weights change places
HybridScoreSwapped(e) == ANN_WEIGHT * e.bm25_score + BM25_WEIGHT * e.ann_score

\* result["score"] = BM25_WEIGHT * bm25_score + ANN_WEIGHT * ann_score
HybridScore(e) == BM25_WEIGHT * e.bm25_score + ANN_WEIGHT * e.ann_score

WithHybrid(doc_scores) ==
    [i \in DOMAIN doc_scores |->
        [doc_scores[i] EXCEPT !.score = HybridScore(doc_scores[i])]]

\* x.get("metadata", {}).get("year", 0): the default is used when the key is
\* absent, not when it holds None
YearKey(e) == IF e.year = Absent THEN 0 ELSE e.year

\* the sort key is the score alone
KeyLessScoreOnly(x, y) == x.score < y.score

\* the sort key (score, year) of x is smaller than that of y; None is only
\* ever compared with None here, and the two are equal
KeyLess(x, y) ==
    \/ x.score < y.score
    \/ /\ x.score = y.score
       /\ YearKey(x) # Null
       /\ YearKey(y) # Null
       /\ YearKey(x) < YearKey(y)

\* Comparing the keys of x and y raises TypeError: the scores are equal, so the
\* years are compared, and exactly one of them is None.  A sort that finishes
\* has compared every two neighbours of its output, so sorted() raises as soon
\* as two entries of the list are such a pair.
KeysIncomparable(x, y) ==
    x.score = y.score /\ ((YearKey(x) = Null) # (YearKey(y) = Null))

SortRaises(entries) ==
    \E i, j \in DOMAIN entries : KeysIncomparable(entries[i], entries[j])

\* sorted(..., reverse=True) is stable: entries with equal keys keep their order
InsertDescending(acc, x) ==
    LET NotLess(p) == ~KeyLess(p, x)
        Less(p) == KeyLess(p, x)
    IN  SelectSeq(acc, NotLess) \o << x >> \o SelectSeq(acc, Less)

RECURSIVE SortDescending(_, _)
SortDescending(acc, entries) ==
    IF entries = << >> THEN acc
    ELSE SortDescending(InsertDescending(acc, Head(entries)), Tail(entries))

\* the whole of dedupe_and_blend: what it leaves in the two lists, whether the
\* sort raised, and the list it returns
dedupe_and_blend(bm25, ann) ==
    LET nb == normalize_scores(bm25)
        na == normalize_scores(ann)
        doc_scores == WithHybrid(MergeAllAnn(AddAllBm25(<< >>, nb), na))
    IN  [bm25 |-> nb, ann |-> na,
         raised |-> SortRaises(doc_scores),
         value |-> IF SortRaises(doc_scores) THEN << >>
                   ELSE SortDescending(<< >>, doc_scores)]

----------------------------------------------------------------------------
(* A call of dedupe_and_blend on lists given by the caller *)

NoFilter == << "None" >>    \* source_filter is None
NoYear == -1                \* year_gte is None

\* the lists a caller passes: any two bounded lists, or the worked example
BlendInputs(b, a) ==
    \/ \E pb \in PairLists(Scores, MaxHits) :
          \E pa \in PairLists(Scores, MaxHits - Len(pb)) :
             /\ Canonical(pb \o pa)
             /\ \E yr \in YearMaps(DocsOf(pb \o pa), Years) :
                   /\ b = Stamp(WithYears(pb, yr), "bm25")
                   /\ a = Stamp(WithYears(pa, yr), "ann")
    \/ b = Stamp(ExampleLexical, "bm25") /\ a = Stamp(ExampleVector, "ann")

InitBlend ==
    /\ pc = "blend_call"
    /\ BlendInputs(bm25_results, ann_results)
    /\ bm25_normed = << >>
    /\ ann_normed = << >>
    /\ blended = << >>
    /\ returned = << >>
    /\ source_filter = NoFilter
    /\ year_gte = NoYear
    /\ top_k = 0
    /\ failed = {}
    /\ answered = << >>
    /\ issued = << >>
    /\ log = << >>
    /\ EmbedderIdle
    /\ HighlighterIdle
    /\ RerankerIdle
    /\ ChunkerIdle

DedupeAndBlend ==
    /\ pc = "blend_call"
    /\ LET r == dedupe_and_blend(bm25_results, ann_results)
       IN  /\ bm25_normed' = r.bm25
           /\ ann_normed' = r.ann
           /\ blended' = r.value
           /\ pc' = IF r.raised THEN "blend_raised" ELSE "blend_returned"
    /\ UNCHANGED << source_filter, year_gte, top_k, bm25_results, ann_results,
                    returned, failed, answered, issued, log >>
    /\ UNCHANGED << embedderVars, highlightVars, rerankVars, chunkVars >>

NextBlend == DedupeAndBlend

SpecBlend == InitBlend /\ [][NextBlend]_vars

----------------------------------------------------------------------------
(* hybrid_search *)

SourceFilters ==
    {NoFilter, << >>, << "papers" >>, << "startups" >>, << "papers", "startups" >>}

YearGtes == {NoYear, 0, 1}

\* top_k reaches from nothing to everything the calls can return
TopKs == 0..MaxAnswer

\* Python truthiness of the two optional arguments
FilterGiven(sf) == sf # NoFilter /\ sf # << >>
YearGiven(y) == y # NoYear /\ y # 0

\* a source is searched only when the filter names it
SearchesOnlyNamed(sf, name) == name \in Range(sf)

\* not source_filter or "papers" in source_filter
Searches(sf, name) == ~FilterGiven(sf) \/ name \in Range(sf)

\* What a backend answers is its own business.  hybrid_search reads neither
\* score nor year, so its answers are drawn from the two ends of the score
\* range and from two years: None, which both clients emit for a document
\* without a year (metadata.year = _source.get("year")), and one integer year.
AnswerScores == {0, MaxScore}
AnswerYears == {Null, MaxYear}

\* the lists a retrieval call can answer with, given the candidates `seen` that
\* earlier calls of this search returned
Answers(seen, call) ==
    LET old == [i \in DOMAIN seen |-> << seen[i].doc_id, seen[i].score >>]
        SeenYear(d) == seen[CHOOSE i \in DOMAIN seen : seen[i].doc_id = d].year
        Lists == {p \in PairLists(AnswerScores, MaxAnswer - Len(seen)) :
                     Canonical(old \o p)}
        YearsFor(p) ==
            {[d \in DocIds |->
                 IF d \in DocsOf(old) THEN SeenYear(d)
                 ELSE IF d \in DocsOf(p) THEN new[d] ELSE Absent] :
               new \in [DocsOf(p) \ DocsOf(old) -> AnswerYears]}
    IN  UNION {{Stamp(WithYears(p, yr), call) : yr \in YearsFor(p)} : p \in Lists}

Request(call, k, sf, y) ==
    [call |-> call, top_k |-> k, source_in |-> sf, year_gte |-> y]

\* the slice keeps one entry too many
SliceOneMore(s, k) == Take(s, k + 1)

\* blended[:top_k], for top_k >= 0
Slice(s, k) == Take(s, k)

InitHybrid ==
    /\ pc = "embed"
    /\ source_filter \in SourceFilters
    /\ year_gte \in YearGtes
    /\ top_k \in TopKs
    /\ bm25_results = << >>
    /\ ann_results = << >>
    /\ bm25_normed = << >>
    /\ ann_normed = << >>
    /\ blended = << >>
    /\ returned = << >>
    /\ failed = {}
    /\ answered = << >>
    /\ issued = << >>
    /\ log = << >>
    /\ EmbedderIdle
    /\ HighlighterIdle
    /\ RerankerIdle
    /\ ChunkerIdle

\* the papers request goes out while the query is being embedded
EmbedQueryAfterRequest ==
    /\ pc = "embed"
    /\ issued' = Append(issued, Request("papers", BM25_TOP_K, NoFilter, year_gte))
    /\ \/ pc' = "papers"
       \/ pc' = "raised"
    /\ UNCHANGED << source_filter, year_gte, top_k, bm25_results, ann_results,
                    bm25_normed, ann_normed, blended, returned, failed,
                    answered, log >>
    /\ UNCHANGED << embedderVars, highlightVars, rerankVars, chunkVars >>

\* query_embedding = embed_query(query): outside every try block
EmbedQuery ==
    /\ pc = "embed"
    /\ \/ pc' = "papers"
       \/ pc' = "raised"
    /\ UNCHANGED << source_filter, year_gte, top_k, bm25_results, ann_results,
                    bm25_normed, ann_normed, blended, returned, failed,
                    answered, issued, log >>
    /\ UNCHANGED << embedderVars, highlightVars, rerankVars, chunkVars >>

\* one lexical search: the try block around opensearch_client.search_<name>
SearchLexical(name, next) ==
    /\ \/ /\ ~Searches(source_filter, name)
          /\ UNCHANGED << bm25_results, failed, answered, issued, log >>
       \/ /\ Searches(source_filter, name)
          /\ issued' = Append(issued, Request(name, BM25_TOP_K, NoFilter, year_gte))
          /\ \/ /\ failed' = failed \cup {name}
                /\ log' = Append(log, << "error", name >>)
                /\ UNCHANGED << bm25_results, answered >>
             \/ \E hits \in Answers(bm25_results, name) :
                   /\ bm25_results' = bm25_results \o hits
                   /\ answered' = Append(answered, [call |-> name, hits |-> hits])
                   /\ UNCHANGED << failed, log >>
    /\ pc' = next
    /\ UNCHANGED << source_filter, year_gte, top_k, ann_results, bm25_normed,
                    ann_normed, blended, returned >>
    /\ UNCHANGED << embedderVars, highlightVars, rerankVars, chunkVars >>

SearchPapers == pc = "papers" /\ SearchLexical("papers", "startups")

SearchStartups == pc = "startups" /\ SearchLexical("startups", "vector")

\* the try block around pinecone_client.search_vectors
SearchVectors ==
    /\ pc = "vector"
    /\ issued' = Append(issued,
           Request("vector", ANN_TOP_K,
               IF FilterGiven(source_filter) THEN source_filter ELSE NoFilter,
               IF YearGiven(year_gte) THEN year_gte ELSE NoYear))
    /\ \/ /\ failed' = failed \cup {"vector"}
          /\ log' = Append(log, << "error", "vector" >>)
          /\ UNCHANGED << ann_results, answered >>
       \/ \E hits \in Answers(bm25_results, "vector") :
             /\ ann_results' = hits
             /\ answered' = Append(answered, [call |-> "vector", hits |-> hits])
             /\ UNCHANGED << failed, log >>
    /\ pc' = "blend"
    /\ UNCHANGED << source_filter, year_gte, top_k, bm25_results, bm25_normed,
                    ann_normed, blended, returned >>
    /\ UNCHANGED << embedderVars, highlightVars, rerankVars, chunkVars >>

\* blended = dedupe_and_blend(bm25_results, ann_results); return blended[:top_k]
BlendAndReturn ==
    /\ pc = "blend"
    /\ LET r == dedupe_and_blend(bm25_results, ann_results)
       IN  /\ bm25_normed' = r.bm25
           /\ ann_normed' = r.ann
           /\ blended' = r.value
           /\ returned' = IF r.raised THEN << >> ELSE Slice(r.value, top_k)
           /\ pc' = IF r.raised THEN "raised" ELSE "done"
    /\ UNCHANGED << source_filter, year_gte, top_k, bm25_results, ann_results,
                    failed, answered, issued, log >>
    /\ UNCHANGED << embedderVars, highlightVars, rerankVars, chunkVars >>

Next ==
    \/ EmbedQuery
    \/ SearchPapers
    \/ SearchStartups
    \/ SearchVectors
    \/ BlendAndReturn

Spec == InitHybrid /\ [][Next]_vars

----------------------------------------------------------------------------
(* A lone call of normalize_scores *)

InitNormalize ==
    /\ pc = "normalize_call"
    /\ \E raw \in UNION {[1..n -> 0..MaxRaw] : n \in 0..MaxNormLen} :
          bm25_results = Stamp([i \in DOMAIN raw |-> Hit("A", raw[i], Absent)], "bm25")
    /\ ann_results = << >>
    /\ bm25_normed = << >>
    /\ ann_normed = << >>
    /\ blended = << >>
    /\ returned = << >>
    /\ source_filter = NoFilter
    /\ year_gte = NoYear
    /\ top_k = 0
    /\ failed = {}
    /\ answered = << >>
    /\ issued = << >>
    /\ log = << >>
    /\ EmbedderIdle
    /\ HighlighterIdle
    /\ RerankerIdle
    /\ ChunkerIdle

NormalizeScores ==
    /\ pc = "normalize_call"
    /\ bm25_normed' = normalize_scores(bm25_results)
    /\ pc' = "normalize_returned"
    /\ UNCHANGED << source_filter, year_gte, top_k, bm25_results, ann_results,
                    ann_normed, blended, returned, failed, answered, issued, log >>
    /\ UNCHANGED << embedderVars, highlightVars, rerankVars, chunkVars >>

NextNormalize == NormalizeScores

SpecNormalize == InitNormalize /\ [][NextNormalize]_vars

----------------------------------------------------------------------------
(* services/embeddings.py: the lazily loaded model and its callers          *)
(*                                                                         *)
(* get_model, embed_query and embed_passages are plain functions: nothing  *)
(* in the module keeps two callers from being inside them at once, so a    *)
(* caller is a thread of control that moves one statement at a time.       *)
(* A text is a sequence of tokens; an f-string that puts a prefix before a *)
(* text puts one token before the sequence.                                *)

Callers == 1..MaxCallers

EmbedTexts == {<< "w" >>}

\* f"query: {query}"
PrefixQuery(text) == << "query: " >> \o text

\* f"passage: {p}"
PrefixPassage(text) == << "passage: " >> \o text

\* the calls a caller can make, with the texts it passes
EmbedderCalls ==
    {[op |-> "get_model", texts |-> << >>]}
    \cup {[op |-> "embed_query", texts |-> << q >>] : q \in EmbedTexts}
    \cup {[op |-> "embed_passages", texts |-> ps] :
             ps \in UNION {[1..n -> EmbedTexts] : n \in 0..MaxPassages}}

\* the texts a call hands to model.encode
EncodeInput(op, texts) ==
    IF op = "embed_query" THEN << PrefixQuery(texts[1]) >>
    ELSE [i \in DOMAIN texts |-> PrefixPassage(texts[i])]

NotCalling ==
    [op |-> "none", texts |-> << >>, at |-> "idle", model |-> NoModel, began |-> 0]

InitEmbedder ==
    /\ pc = "serving"
    /\ log = << >>
    /\ _model = NoModel
    /\ load_log = << >>
    /\ thread = [c \in Callers |-> NotCalling]
    /\ encoded = << >>
    /\ source_filter = NoFilter
    /\ year_gte = NoYear
    /\ top_k = 0
    /\ bm25_results = << >>
    /\ ann_results = << >>
    /\ bm25_normed = << >>
    /\ ann_normed = << >>
    /\ blended = << >>
    /\ returned = << >>
    /\ failed = {}
    /\ answered = << >>
    /\ issued = << >>
    /\ HighlighterIdle
    /\ RerankerIdle
    /\ ChunkerIdle

\* the other components are not touched by the embedding module
EmbedderFrame ==
    UNCHANGED << pc, retrieverVars, highlightVars, rerankVars, chunkVars >>

\* a caller enters get_model, directly or as the first statement of
\* embed_query or embed_passages
Call(c) ==
    /\ thread[c].at = "idle"
    /\ \E call \in EmbedderCalls :
          thread' = [thread EXCEPT ![c] =
                        [op |-> call.op, texts |-> call.texts, at |-> "check",
                         model |-> NoModel, began |-> Len(load_log)]]
    /\ UNCHANGED << _model, load_log, encoded, log >>

\* if _model is None:
CheckModel(c) ==
    /\ thread[c].at = "check"
    /\ thread' = [thread EXCEPT ![c].at =
                     IF _model = NoModel THEN "load" ELSE "return"]
    /\ UNCHANGED << _model, load_log, encoded, log >>

\* _model = SentenceTransformer(settings.embedding_model), between its two
\* logger.info lines: the constructor returns a new instance, which the
\* global then holds, or it raises, and the exception leaves get_model and
\* the function that called it
LoadModel(c) ==
    /\ thread[c].at = "load"
    /\ \E ok \in BOOLEAN :
          /\ load_log' = Append(load_log, [by |-> c, ok |-> ok])
          /\ _model' = IF ok THEN Len(load_log) + 1 ELSE _model
          /\ thread' = [thread EXCEPT ![c].at = IF ok THEN "return" ELSE "raised"]
          /\ log' = IF ok THEN log \o << << "info", "loading" >>, << "info", "loaded" >> >>
                    ELSE Append(log, << "info", "loading" >>)
    /\ UNCHANGED encoded

\* return _model: the caller receives what the global holds now
ReturnModel(c) ==
    /\ thread[c].at = "return"
    /\ thread' = [thread EXCEPT ![c].model = _model,
                                ![c].at = IF thread[c].op = "get_model"
                                          THEN "done" ELSE "encode"]
    /\ UNCHANGED << _model, load_log, encoded, log >>

\* model.encode(prefixed texts, ...), and the return of the embedding
Encode(c) ==
    /\ thread[c].at = "encode"
    /\ encoded' = Append(encoded,
           [by |-> c, model |-> thread[c].model,
            texts |-> EncodeInput(thread[c].op, thread[c].texts)])
    /\ thread' = [thread EXCEPT ![c].at = "done"]
    /\ UNCHANGED << _model, load_log, log >>

NextEmbedder ==
    \/ \E c \in Callers : Call(c) /\ EmbedderFrame
    \/ \E c \in Callers : CheckModel(c) /\ EmbedderFrame
    \/ \E c \in Callers : LoadModel(c) /\ EmbedderFrame
    \/ \E c \in Callers : ReturnModel(c) /\ EmbedderFrame
    \/ \E c \in Callers : Encode(c) /\ EmbedderFrame

SpecEmbedder == InitEmbedder /\ [][NextEmbedder]_vars

----------------------------------------------------------------------------
(* services/highlight.py: extract_sentences and generate_highlights         *)
(*                                                                         *)
(* A text is a sequence of tokens: "W" is a word of eleven characters, "w" *)
(* a word of four, "." one of the characters . ! ? and " " one whitespace  *)
(* character.  A sentence is a text, and is equal to a stretch of the      *)
(* document text it was cut from.                                          *)

Tokens == {"W", "w", ".", " "}

TokenLen(t) == IF t = "W" THEN 11 ELSE IF t = "w" THEN 4 ELSE 1

RECURSIVE CharLen(_)
CharLen(text) ==
    IF text = << >> THEN 0 ELSE TokenLen(Head(text)) + CharLen(Tail(text))

\* str.strip()
RECURSIVE Strip(_)
Strip(text) ==
    IF text = << >> THEN text
    ELSE IF Head(text) = " " THEN Strip(Tail(text))
    ELSE IF text[Len(text)] = " " THEN Strip(SubSeq(text, 1, Len(text) - 1))
    ELSE text

\* the end of the whitespace run that begins at position i
RECURSIVE SkipSpaces(_, _)
SkipSpaces(text, i) ==
    IF i <= Len(text) /\ text[i] = " " THEN SkipSpaces(text, i + 1) ELSE i

\* re.split(r'(?<=[.!?])\s+', text): the text is cut at every run of
\* whitespace that follows a terminator, and the run is dropped
RECURSIVE Split(_, _, _)
Split(text, i, piece) ==
    IF i > Len(text) THEN << piece >>
    ELSE IF text[i] = " " /\ i > 1 /\ text[i - 1] = "."
         THEN << piece >> \o Split(text, SkipSpaces(text, i), << >>)
         ELSE Split(text, i + 1, Append(piece, text[i]))

\* [s.strip() for s in sentences if s.strip() and len(s.strip()) > 10]
extract_sentences(text) ==
    LET pieces == Split(text, 1, << >>)
        stripped == [i \in DOMAIN pieces |-> Strip(pieces[i])]
    IN  SelectSeq(stripped, LAMBDA x : x # << >> /\ CharLen(x) > MinSentenceLen)

Orders(n) == {f \in [1..n -> 1..n] : \A i, j \in 1..n : f[i] = f[j] => i = j}

\* the slice keeps one index too many
TopIndicesOneMore(sims, m) ==
    {Take(order, m + 1) :
        order \in {f \in Orders(Len(sims)) :
                      \A i, j \in DOMAIN f : i < j => sims[f[i]] >= sims[f[j]]}}

\* argsort is not reversed
TopIndicesAscending(sims, m) ==
    {Take(order, m) :
        order \in {f \in Orders(Len(sims)) :
                      \A i, j \in DOMAIN f : i < j => sims[f[i]] <= sims[f[j]]}}

\* np.argsort(similarities)[::-1][:max_highlights]: argsort leaves the order
\* of equal similarities open, so every order it can give is an outcome
TopIndices(sims, m) ==
    {Take(order, m) :
        order \in {f \in Orders(Len(sims)) :
                      \A i, j \in DOMAIN f : i < j => sims[f[i]] >= sims[f[j]]}}

Texts == UNION {[1..n -> Tokens] : n \in 0..MaxTextLen}

HighlightQueries == {<< "w" >>}

\* max_highlights, from none to the default
HighlightCounts == 0..MAX_HIGHLIGHTS

\* the caller of generate_highlights, in load_log and encoded
Highlighter == 1

\* the model was loaded by an earlier request, or is still to be loaded
InitHighlight ==
    /\ pc = "highlight_call"
    /\ log = << >>
    /\ query \in HighlightQueries
    /\ document_text \in Texts
    /\ max_highlights \in HighlightCounts
    /\ sentences = << >>
    /\ similarities = << >>
    /\ top_indices = << >>
    /\ highlights = << >>
    /\ history = << >>
    /\ \/ _model = NoModel /\ load_log = << >>
       \/ _model = 1 /\ load_log = << [by |-> 0, ok |-> TRUE] >>
    /\ thread = << >>
    /\ encoded = << >>
    /\ source_filter = NoFilter
    /\ year_gte = NoYear
    /\ top_k = 0
    /\ bm25_results = << >>
    /\ ann_results = << >>
    /\ bm25_normed = << >>
    /\ ann_normed = << >>
    /\ blended = << >>
    /\ returned = << >>
    /\ failed = {}
    /\ answered = << >>
    /\ issued = << >>
    /\ RerankerIdle
    /\ ChunkerIdle

\* The model and argsort are functions: asked again about the same query and
\* sentences, they answer what they answered in an earlier call that got as
\* far as asking them.
AsBefore(field, value) ==
    \A k \in DOMAIN history :
        history[k].reached[field] => history[k][field] = value

HighlightFrame ==
    UNCHANGED << retrieverVars, rerankVars, chunkVars, thread, history >>

\* sentences = extract_sentences(document_text); if not sentences: return []
ExtractSentences ==
    /\ pc = "highlight_call"
    /\ sentences' = extract_sentences(document_text)
    /\ pc' = IF sentences' = << >> THEN "highlight_returned" ELSE "embed_query"
    /\ UNCHANGED << log, query, document_text, max_highlights, similarities,
                    top_indices, highlights, _model, load_log, encoded >>
    /\ HighlightFrame

\* query_embedding = embed_query(query): get_model loads the model if there
\* is none, then the prefixed query is encoded; either step can raise
HighlightEmbedQuery ==
    /\ pc = "embed_query"
    /\ \/ /\ _model = NoModel
          /\ load_log' = Append(load_log, [by |-> Highlighter, ok |-> FALSE])
          /\ pc' = "except"
          /\ UNCHANGED << _model, encoded >>
       \/ \E raised \in BOOLEAN :
             /\ _model' = IF _model = NoModel THEN Len(load_log) + 1 ELSE _model
             /\ load_log' = IF _model = NoModel
                            THEN Append(load_log, [by |-> Highlighter, ok |-> TRUE])
                            ELSE load_log
             /\ encoded' = Append(encoded,
                    [by |-> Highlighter, model |-> _model',
                     texts |-> << PrefixQuery(query) >>])
             /\ pc' = IF raised THEN "except" ELSE "embed_sentences"
    /\ UNCHANGED << log, query, document_text, max_highlights, sentences,
                    similarities, top_indices, highlights >>
    /\ HighlightFrame

\* model = get_model(); sentence_embeddings = model.encode(sentences, ...);
\* similarities = cosine_similarity(query_embedding, sentence_embeddings).
\* The sentences are encoded as they are.  The model is a function: equal
\* sentences get equal similarities.
HighlightEmbedSentences ==
    /\ pc = "embed_sentences"
    /\ encoded' = Append(encoded,
           [by |-> Highlighter, model |-> _model, texts |-> sentences])
    /\ \/ pc' = "except" /\ UNCHANGED similarities
       \/ \E sim \in [Range(sentences) -> 0..MaxSim] :
             /\ similarities' = [i \in DOMAIN sentences |-> sim[sentences[i]]]
             /\ AsBefore("similarities", similarities')
             /\ pc' = "select"
    /\ UNCHANGED << log, query, document_text, max_highlights, sentences,
                    top_indices, highlights, _model, load_log >>
    /\ HighlightFrame

\* top_indices = ...; highlights = [sentences[i] for i in top_indices]
SelectHighlights ==
    /\ pc = "select"
    /\ \E top \in TopIndices(similarities, max_highlights) :
          /\ top_indices' = top
          /\ AsBefore("top_indices", top)
          /\ highlights' = [i \in DOMAIN top |-> sentences[top[i]]]
    /\ pc' = "highlight_returned"
    /\ UNCHANGED << log, query, document_text, max_highlights, sentences,
                    similarities, _model, load_log, encoded >>
    /\ HighlightFrame

\* the fallback returns nothing
FirstSentencesNone(s, m) == << >>

\* the fallback returns the last sentences
FirstSentencesLast(s, m) == SubSeq(s, Max({1, Len(s) - m + 1}), Len(s))

\* sentences[:max_highlights], for max_highlights >= 0
FirstSentences(s, m) == Take(s, m)

\* except Exception: logger.error; the first sentences, as they come
HighlightFallback ==
    /\ pc = "except"
    /\ log' = Append(log, << "error", "highlights" >>)
    /\ sentences' = extract_sentences(document_text)
    /\ highlights' = FirstSentences(sentences', max_highlights)
    /\ pc' = "highlight_fell_back"
    /\ UNCHANGED << query, document_text, max_highlights, similarities,
                    top_indices, _model, load_log, encoded >>
    /\ HighlightFrame

\* The caller calls generate_highlights once more with the same arguments;
\* of the first call the module keeps what get_model has stored in _model.
HighlightAgain ==
    /\ pc \in {"highlight_returned", "highlight_fell_back"}
    /\ history = << >>
    /\ history' = << [path |-> pc, highlights |-> highlights,
                      similarities |-> similarities, top_indices |-> top_indices,
                      reached |-> [similarities |-> similarities # << >>,
                                   top_indices |-> pc = "highlight_returned"
                                                   /\ sentences # << >>]] >>
    /\ sentences' = << >>
    /\ similarities' = << >>
    /\ top_indices' = << >>
    /\ highlights' = << >>
    /\ pc' = "highlight_call"
    /\ UNCHANGED << log, query, document_text, max_highlights, _model, load_log,
                    encoded, thread, retrieverVars, rerankVars, chunkVars >>

NextHighlight ==
    \/ ExtractSentences
    \/ HighlightEmbedQuery
    \/ HighlightEmbedSentences
    \/ SelectHighlights
    \/ HighlightFallback

SpecHighlight == InitHighlight /\ [][NextHighlight]_vars

NextHighlightTwice == NextHighlight \/ HighlightAgain

\* two calls in a process that has not loaded the model yet
InitHighlightTwice ==
    /\ InitHighlight
    /\ _model = NoModel
    /\ max_highlights >= 1

SpecHighlightTwice == InitHighlightTwice /\ [][NextHighlightTwice]_vars

----------------------------------------------------------------------------
(* services/reranker.py: rerank_documents                                   *)
(*                                                                         *)
(* A document is a record [doc_id, score]: score is the number under the   *)
(* 'score' key, or Absent when the dictionary has no such key.  A returned *)
(* pair (document, score) is a record [doc, score].  The rerank API is an  *)
(* external collaborator: the call fails, or answers with a body.          *)

\* the document at position i carries the score 10 + i, or no score
RerankInputs ==
    UNION {{[i \in 1..n |-> [doc_id |-> DocOrder[i],
                             score |-> IF i \in scored THEN 10 + i ELSE Absent]] :
               scored \in SUBSET (1..n)} :
           n \in 0..MaxDocs}

\* top_n, from nothing to more than there are documents
TopNs == 0..(MaxDocs + 1)

\* one entry of the results list of a response to n documents: a well-formed
\* one, or one without index, without relevance_score, with an index past
\* the end or with a negative index
Entries(n) ==
    {[index |-> i, relevance_score |-> r] : i \in 0..(n - 1), r \in 0..MaxRelevance}
    \cup {[index |-> Absent, relevance_score |-> 0],
          [index |-> 0, relevance_score |-> Absent],
          [index |-> n, relevance_score |-> 0],
          [index |-> -1, relevance_score |-> 0]}

\* what the call can do: raise in the transport, answer with an error status
\* (raise_for_status raises), answer with a body that is not JSON, with JSON
\* that is not an object, with an object without results, with results null,
\* or with a results list
ResponseKinds ==
    {"transport", "status", "not_json", "not_object", "no_results", "results_null"}

Responses(n) ==
    {[kind |-> k, results |-> << >>] : k \in ResponseKinds}
    \cup {[kind |-> "results", results |-> r] :
             r \in UNION {[1..m -> Entries(n)] : m \in 0..MaxDocs}}

\* min(top_n, len(texts)), the top_n of the request
RequestedTopN(docs, n) == Min({n, Len(docs)})

\* documents[index], for an index Python accepts
PyIndex(docs, i) == IF i >= 0 THEN docs[i + 1] ELSE docs[Len(docs) + i + 1]

\* an exception is raised somewhere in the try block: by the call, by
\* raise_for_status, by response.json(), by result.get, by the iteration over
\* null, by item["index"], by item["relevance_score"] or by documents[index]
Raises(docs, resp) ==
    \/ resp.kind \in {"transport", "status", "not_json", "not_object", "results_null"}
    \/ /\ resp.kind = "results"
       /\ \E k \in DOMAIN resp.results :
             LET item == resp.results[k]
             IN  \/ item.index = Absent
                 \/ item.relevance_score = Absent
                 \/ item.index >= Len(docs)
                 \/ item.index < 0 - Len(docs)

\* the pairs come out in the reverse of the order of the response
RerankedReversed(docs, resp) ==
    [k \in DOMAIN resp.results |->
        [doc |-> PyIndex(docs, resp.results[Len(resp.results) + 1 - k].index),
         score |-> resp.results[Len(resp.results) + 1 - k].relevance_score]]

\* for item in result.get("results", []):
\*     reranked.append((documents[item["index"]], item["relevance_score"]))
Reranked(docs, resp) ==
    [k \in DOMAIN resp.results |->
        [doc |-> PyIndex(docs, resp.results[k].index),
         score |-> resp.results[k].relevance_score]]

\* the fallback ignores top_n
PassThroughAll(docs, n) ==
    [i \in DOMAIN docs |->
        [doc |-> docs[i],
         score |-> IF docs[i].score = Absent THEN 0 ELSE docs[i].score]]

\* [(doc, doc.get("score", 0.0)) for doc in documents[:top_n]]
PassThrough(docs, n) ==
    [i \in DOMAIN Take(docs, n) |->
        [doc |-> docs[i],
         score |-> IF docs[i].score = Absent THEN 0 ELSE docs[i].score]]

\* the fallback writes nothing
FallbackLogNothing(l) == l

\* logger.error(f"Reranking failed: {e}");
\* logger.warning("Falling back to original ranking")
FallbackLog(l) == l \o << << "error", "rerank" >>, << "warning", "fallback" >> >>

InitRerank ==
    /\ pc = "rerank_call"
    /\ log = << >>
    /\ documents \in RerankInputs
    /\ top_n \in TopNs
    /\ response = NoResponse
    /\ reranked = << >>
    /\ source_filter = NoFilter
    /\ year_gte = NoYear
    /\ top_k = 0
    /\ bm25_results = << >>
    /\ ann_results = << >>
    /\ bm25_normed = << >>
    /\ ann_normed = << >>
    /\ blended = << >>
    /\ returned = << >>
    /\ failed = {}
    /\ answered = << >>
    /\ issued = << >>
    /\ EmbedderIdle
    /\ HighlighterIdle
    /\ ChunkerIdle

\* if not documents: return []
RerankNothing ==
    /\ pc = "rerank_call"
    /\ documents = << >>
    /\ reranked' = << >>
    /\ pc' = "rerank_returned"
    /\ UNCHANGED << log, documents, top_n, response >>
    /\ UNCHANGED << retrieverVars, embedderVars, highlightVars, chunkVars >>

\* the try block and its except clause
RerankDocuments ==
    /\ pc = "rerank_call"
    /\ documents # << >>
    /\ \E resp \in Responses(Len(documents)) :
          /\ response' = resp
          /\ IF Raises(documents, resp)
             THEN /\ log' = FallbackLog(log)
                  /\ reranked' = PassThrough(documents, top_n)
                  /\ pc' = "rerank_fell_back"
             ELSE /\ log' = Append(log, << "info", "reranked" >>)
                  /\ reranked' = Reranked(documents, resp)
                  /\ pc' = "rerank_returned"
    /\ UNCHANGED << documents, top_n >>
    /\ UNCHANGED << retrieverVars, embedderVars, highlightVars, chunkVars >>

NextRerank ==
    \/ RerankNothing
    \/ RerankDocuments

SpecRerank == InitRerank /\ [][NextRerank]_vars

----------------------------------------------------------------------------
(* The two operations that can degrade: a request is a hybrid_search call  *)
(* or a rerank_documents call                                              *)

InitDegraded == InitHybrid \/ InitRerank

NextDegraded == Next \/ NextRerank

SpecDegraded == InitDegraded /\ [][NextDegraded]_vars

----------------------------------------------------------------------------
(* services/chunking.py: chunk_text                                         *)
(*                                                                         *)
(* A text is a sequence of tokens: " " is one whitespace character, "x" one *)
(* character that is neither whitespace nor a terminator, "s." a run of    *)
(* STRIDE_CHARS - 1 such characters whose last one is a terminator, and    *)
(* "L." a run of TARGET_CHUNK_CHARS / 2 of them whose last one is a        *)
(* terminator.  doc_id, source, title and section are copied into every    *)
(* chunk as they were passed and are left out.                             *)

ChunkTokens == {" ", "x", "s.", "L."}

\* the last character of the token is one of . ! ?
EndsWithTerminator(t) == t \in {"s.", "L."}

ChunkTokenLen(t) ==
    IF t = "L." THEN TARGET_CHUNK_CHARS \div 2
    ELSE IF t = "s." THEN STRIDE_CHARS - 1
    ELSE 1

\* len(text)
RECURSIVE ChunkLen(_)
ChunkLen(t) ==
    IF t = << >> THEN 0 ELSE ChunkTokenLen(Head(t)) + ChunkLen(Tail(t))

\* re.split(r'(?<=[.!?])\s+', text)
RECURSIVE SentenceSplit(_, _, _)
SentenceSplit(t, i, piece) ==
    IF i > Len(t) THEN << piece >>
    ELSE IF t[i] = " " /\ i > 1 /\ EndsWithTerminator(t[i - 1])
         THEN << piece >> \o SentenceSplit(t, SkipSpaces(t, i), << >>)
         ELSE SentenceSplit(t, i + 1, Append(piece, t[i]))

\* [s.strip() for s in sentences if s.strip()]
split_into_sentences(t) ==
    LET pieces == SentenceSplit(t, 1, << >>)
        stripped == [i \in DOMAIN pieces |-> Strip(pieces[i])]
    IN  SelectSeq(stripped, LAMBDA s : s # << >>)

\* not text or not text.strip()
Blank(t) == t = << >> \/ Strip(t) = << >>

\* a blank text yields one chunk without text
NoChunksPlaceholder == << [chunk_index |-> 0, text |-> << >>, span |-> << 1, 0 >>] >>

\* return []
NoChunks == << >>

\* " ".join(current_chunk)
RECURSIVE Join(_)
Join(list) ==
    IF list = << >> THEN << >>
    ELSE IF Len(list) = 1 THEN Head(list)
    ELSE Head(list) \o << " " >> \o Join(Tail(list))

\* the buffer is closed before every sentence but the first
ExceedsAlways(length, sentence_length, chunk) == chunk # << >>

\* current_length + sentence_length > TARGET_CHUNK_CHARS and current_chunk
Exceeds(length, sentence_length, chunk) ==
    length + sentence_length > TARGET_CHUNK_CHARS /\ chunk # << >>

\* only the first buffered sentence goes into the chunk
EmitFirstOnly(list, chunk, index, first) ==
    Append(list, [chunk_index |-> index,
                  text |-> Join(<< Head(chunk) >>),
                  span |-> << first, first + Len(chunk) - 1 >>])

\* chunks.append({..., "chunk_index": chunk_index, "text": " ".join(current_chunk)}):
\* span notes which sentences were joined, the buffer holding the sentences
\* from place `first` on
Emit(list, chunk, index, first) ==
    Append(list, [chunk_index |-> index,
                  text |-> Join(chunk),
                  span |-> << first, first + Len(chunk) - 1 >>])

\* while current_chunk and current_length > STRIDE_CHARS:
\*     removed = current_chunk.pop(0); current_length -= len(removed) + 1
RECURSIVE Stride(_, _)
Stride(chunk, length) ==
    IF chunk # << >> /\ length > STRIDE_CHARS
    THEN Stride(Tail(chunk), length - (ChunkLen(Head(chunk)) + 1))
    ELSE [chunk |-> chunk, length |-> length]

\* nothing of the closed chunk is kept
KeepNothing(chunk, length) == [chunk |-> << >>, length |-> 0]

\* "Keep last portion for stride (overlap)"
KeepLastPortion(chunk, length) == Stride(chunk, length)

\* sum(len(s) for s in current_chunk) + len(current_chunk) - 1
RECURSIVE SumLen(_)
SumLen(list) ==
    IF list = << >> THEN 0 ELSE ChunkLen(Head(list)) + SumLen(Tail(list))

Recount(chunk) == SumLen(chunk) + Len(chunk) - 1

ChunkTexts == UNION {[1..n -> ChunkTokens] : n \in 0..MaxChunkTokens}

InitChunk ==
    /\ pc = "chunk_call"
    /\ log = << >>
    /\ input_text \in ChunkTexts
    /\ chunk_sentences = << >>
    /\ position = 0
    /\ current_chunk = << >>
    /\ current_length = 0
    /\ chunk_index = 0
    /\ chunks = << >>
    /\ source_filter = NoFilter
    /\ year_gte = NoYear
    /\ top_k = 0
    /\ bm25_results = << >>
    /\ ann_results = << >>
    /\ bm25_normed = << >>
    /\ ann_normed = << >>
    /\ blended = << >>
    /\ returned = << >>
    /\ failed = {}
    /\ answered = << >>
    /\ issued = << >>
    /\ EmbedderIdle
    /\ HighlighterIdle
    /\ RerankerIdle

ChunkFrame ==
    UNCHANGED << retrieverVars, embedderVars, highlightVars, rerankVars >>

\* the guard, the split and the four assignments before the loop
ChunkCall ==
    /\ pc = "chunk_call"
    /\ IF Blank(input_text)
       THEN /\ chunks' = NoChunks
            /\ pc' = "chunk_returned"
            /\ UNCHANGED << chunk_sentences, position >>
       ELSE /\ chunk_sentences' = split_into_sentences(input_text)
            /\ position' = 1
            /\ pc' = "chunk_loop"
            /\ chunks' = << >>
    /\ current_chunk' = << >>
    /\ current_length' = 0
    /\ chunk_index' = 0
    /\ UNCHANGED << input_text, log >>
    /\ ChunkFrame

\* one pass of `for sentence in sentences`
ChunkSentence ==
    /\ pc = "chunk_loop"
    /\ position <= Len(chunk_sentences)
    /\ LET sentence == chunk_sentences[position]
           sentence_length == ChunkLen(sentence)
       IN  IF Exceeds(current_length, sentence_length, current_chunk)
           THEN /\ chunks' = Emit(chunks, current_chunk, chunk_index,
                                  position - Len(current_chunk))
                /\ chunk_index' = chunk_index + 1
                /\ current_chunk' =
                      Append(KeepLastPortion(current_chunk, current_length).chunk,
                             sentence)
                /\ current_length' = Recount(current_chunk')
           ELSE /\ current_chunk' = Append(current_chunk, sentence)
                /\ current_length' = current_length + sentence_length
                                        + (IF current_chunk' # << >> THEN 1 ELSE 0)
                /\ UNCHANGED << chunks, chunk_index >>
    /\ position' = position + 1
    /\ pc' = "chunk_loop"
    /\ UNCHANGED << input_text, chunk_sentences, log >>
    /\ ChunkFrame

\* "Add remaining text as final chunk", the debug line and the return
ChunkReturn ==
    /\ pc = "chunk_loop"
    /\ position > Len(chunk_sentences)
    /\ chunks' = IF current_chunk # << >>
                 THEN Emit(chunks, current_chunk, chunk_index,
                           position - Len(current_chunk))
                 ELSE chunks
    /\ log' = Append(log, << "debug", "chunked" >>)
    /\ pc' = "chunk_returned"
    /\ UNCHANGED << input_text, chunk_sentences, position, current_chunk,
                    current_length, chunk_index >>
    /\ ChunkFrame

NextChunk ==
    \/ ChunkCall
    \/ ChunkSentence
    \/ ChunkReturn

SpecChunk == InitChunk /\ [][NextChunk]_vars

----------------------------------------------------------------------------
(* What the claims speak of *)

DocSet(list) == {list[i].doc_id : i \in DOMAIN list}

Occurrences(list, d) == {i \in DOMAIN list : list[i].doc_id = d}

RawScores(list) == {list[i].score : i \in DOMAIN list}

\* the min-max normalized score of entry i of a non-empty list, with Unit for 1.0
MinMax(list, i) ==
    IF Max(RawScores(list)) = Min(RawScores(list)) THEN Unit
    ELSE ((list[i].score - Min(RawScores(list))) * Unit)
             \div (Max(RawScores(list)) - Min(RawScores(list)))

InBoth(d) == d \in DocSet(bm25_results) /\ d \in DocSet(ann_results)

BlendReturned == pc = "blend_returned"

----------------------------------------------------------------------------
(* C2 *)

\* C2: every doc_id that occurs in both lists passed to dedupe_and_blend has a
\* blended result whose sources hold both "bm25" and "ann" and whose score is
\* 0.6 * its normalized lexical score + 0.4 * its normalized vector score (the
\* normalized score of one of its entries, where the doc_id has several).
C2_SharedDocBlendsBoth ==
    BlendReturned =>
        \A d \in DocIds :
            InBoth(d) =>
                \E k \in DOMAIN blended :
                    /\ blended[k].doc_id = d
                    /\ "bm25" \in Range(blended[k].sources)
                    /\ "ann" \in Range(blended[k].sources)
                    /\ \E i \in Occurrences(bm25_results, d),
                          j \in Occurrences(ann_results, d) :
                           blended[k].score =
                               6 * MinMax(bm25_results, i) + 4 * MinMax(ann_results, j)

\* a shared document whose two normalized scores differ, next to another document
C2_Witness ==
    /\ BlendReturned
    /\ Len(blended) >= 2
    /\ \E k \in DOMAIN blended :
          /\ InBoth(blended[k].doc_id)
          /\ blended[k].score = BM25_WEIGHT * Unit

----------------------------------------------------------------------------
(* C3 *)

\* C3: for a non-empty list normalize_scores gives every candidate a score_norm
\* in [0, 1], gives 1.0 to every candidate that holds the maximum raw score, and
\* gives 1.0 to all of them when all raw scores are equal.
C3_NormalizedRange ==
    (pc = "normalize_returned" /\ bm25_results # << >>) =>
        /\ Len(bm25_normed) = Len(bm25_results)
        /\ \A i \in DOMAIN bm25_normed :
              /\ bm25_normed[i].score_norm >= 0
              /\ bm25_normed[i].score_norm <= Unit
              /\ bm25_results[i].score = Max(RawScores(bm25_results))
                     => bm25_normed[i].score_norm = Unit
              /\ Cardinality(RawScores(bm25_results)) = 1
                     => bm25_normed[i].score_norm = Unit

\* a list of three different scores: one candidate lies strictly between 0 and 1
C3_Witness ==
    /\ pc = "normalize_returned"
    /\ Cardinality(RawScores(bm25_results)) >= 3
    /\ \E i \in DOMAIN bm25_normed :
          bm25_normed[i].score_norm > 0 /\ bm25_normed[i].score_norm < Unit

----------------------------------------------------------------------------
(* C4 *)

Inputs == bm25_results \o ann_results

MissingYear(e) == e.year = Null \/ e.year = Absent

AllIntegerYears == \A i \in DOMAIN Inputs : ~MissingYear(Inputs[i])

\* C4: when every candidate carries an integer year, the list dedupe_and_blend
\* returns is in descending order of hybrid score, and results of equal hybrid
\* score are in descending order of year.
C4_SortedByScoreThenYear ==
    (BlendReturned /\ AllIntegerYears) =>
        \A i, j \in DOMAIN blended :
            i < j =>
                \/ blended[i].score > blended[j].score
                \/ /\ blended[i].score = blended[j].score
                   /\ blended[i].year >= blended[j].year

\* three results, two of them lexical hits of equal score of which the newer
\* one came later in the list and is ranked first
C4_Witness ==
    /\ BlendReturned
    /\ AllIntegerYears
    /\ Len(blended) = 3
    /\ \E i, j \in DOMAIN blended :
          /\ i < j
          /\ blended[i].score = blended[j].score
          /\ blended[i].year > blended[j].year
          /\ blended[i].title[1] = "bm25"
          /\ blended[j].title[1] = "bm25"
          /\ blended[i].title[2] > blended[j].title[2]

----------------------------------------------------------------------------
(* C5 *)

BlendEnded == pc = "blend_returned" \/ pc = "blend_raised"

\* C5: a candidate without a publication year (no metadata, no year key, or a
\* null year) is ordered as if its year were 0: dedupe_and_blend completes, and
\* the candidate comes after every result of equal score with a positive year.
C5_MissingYearSortsAsZero ==
    (BlendEnded /\ ~AllIntegerYears) =>
        /\ pc = "blend_returned"
        /\ \A i, j \in DOMAIN blended :
              ( /\ blended[i].score = blended[j].score
                /\ MissingYear(blended[i])
                /\ blended[j].year > 0 ) => j < i

----------------------------------------------------------------------------
(* C6 *)

\* C6: the list dedupe_and_blend returns holds each doc_id once, and its doc_ids
\* are those of the two lists together, also when a doc_id occurs several times
\* in a list.
C6_EachDocOnce ==
    BlendReturned =>
        /\ \A i, j \in DOMAIN blended :
              blended[i].doc_id = blended[j].doc_id => i = j
        /\ DocSet(blended) = DocSet(bm25_results) \cup DocSet(ann_results)

\* two vector hits of one document, next to another document
C6_Witness ==
    /\ BlendReturned
    /\ Len(blended) >= 2
    /\ \E d \in DocIds : Cardinality(Occurrences(ann_results, d)) >= 2

----------------------------------------------------------------------------
(* C7 *)

\* C7: a document of the vector list alone has bm25_score 0.0 and hybrid score
\* 0.4 * its normalized vector score; a document of the lexical list alone has
\* ann_score 0.0 and hybrid score 0.6 * its normalized lexical score.
C7_MissingOriginIsZero ==
    BlendReturned =>
        \A k \in DOMAIN blended :
            LET e == blended[k]
            IN  /\ e.doc_id \notin DocSet(bm25_results) =>
                      /\ e.bm25_score = 0
                      /\ \E j \in Occurrences(ann_results, e.doc_id) :
                            /\ e.ann_score = MinMax(ann_results, j)
                            /\ e.score = 4 * MinMax(ann_results, j)
                /\ e.doc_id \notin DocSet(ann_results) =>
                      /\ e.ann_score = 0
                      /\ \E i \in Occurrences(bm25_results, e.doc_id) :
                            /\ e.bm25_score = MinMax(bm25_results, i)
                            /\ e.score = 6 * MinMax(bm25_results, i)

\* a vector-only and a lexical-only document, each the best of its list
C7_Witness ==
    /\ BlendReturned
    /\ \E k \in DOMAIN blended :
          /\ blended[k].doc_id \notin DocSet(bm25_results)
          /\ blended[k].score = ANN_WEIGHT * Unit
    /\ \E k \in DOMAIN blended :
          /\ blended[k].doc_id \notin DocSet(ann_results)
          /\ blended[k].score = BM25_WEIGHT * Unit

----------------------------------------------------------------------------
(* C8 *)

\* C8: every result of dedupe_and_blend has a non-empty sources collection that
\* is a set over {bm25, ann}: "bm25" is in it iff the doc_id occurred in the
\* lexical list, "ann" iff it occurred in the vector list, and no origin is in
\* it more than once.
C8_SourcesIsSet ==
    BlendReturned =>
        \A k \in DOMAIN blended :
            LET e == blended[k]
            IN  /\ Len(e.sources) >= 1
                /\ Range(e.sources) \subseteq {"bm25", "ann"}
                /\ "bm25" \in Range(e.sources) <=> e.doc_id \in DocSet(bm25_results)
                /\ "ann" \in Range(e.sources) <=> e.doc_id \in DocSet(ann_results)
                /\ Len(e.sources) = Cardinality(Range(e.sources))

----------------------------------------------------------------------------
(* C9 *)

IsExample ==
    /\ bm25_results = Stamp(ExampleLexical, "bm25")
    /\ ann_results = Stamp(ExampleVector, "ann")

ResultOf(d) == blended[CHOOSE k \in DOMAIN blended : blended[k].doc_id = d]

ExampleCommon ==
    /\ Len(blended) = 2
    /\ DocSet(blended) = {"A", "B"}
    /\ Range(ResultOf("A").sources) = {"bm25", "ann"}
    /\ ResultOf("A").score = 10 * Unit
    /\ Range(ResultOf("B").sources) = {"ann"}
    /\ ResultOf("B").bm25_score = 0

\* C9 as stated: blending lexical [A: 10] with vector [A: 0.9, B: 0.5] yields
\* two results, A with both origins and hybrid score 1.0, and B with origin
\* {vector}, lexical norm 0, vector norm 1.0 and hybrid score 0.4.
C9_ExampleAsStated ==
    (BlendReturned /\ IsExample) =>
        /\ ExampleCommon
        /\ ResultOf("B").ann_score = Unit
        /\ ResultOf("B").score = 4 * Unit

\* C9 as amended: blending lexical [A: 10] with vector [A: 0.9, B: 0.5] yields
\* two results, A with both origins and hybrid score 1.0, and B with origin
\* {vector}, lexical norm 0, vector norm 0.0 (0.5 is the minimum of the vector
\* list) and hybrid score 0.0.
C9_ExampleAmended ==
    (BlendReturned /\ IsExample) =>
        /\ ExampleCommon
        /\ ResultOf("B").ann_score = 0
        /\ ResultOf("B").score = 0

C9_Witness == BlendReturned /\ IsExample /\ Len(blended) = 2

----------------------------------------------------------------------------
(* C1 *)

HybridEnded == pc = "done" \/ pc = "raised"

\* the doc_ids that the calls named in `calls` have returned
AnsweredDocs(calls) ==
    UNION {DocSet(answered[i].hits) :
             i \in {j \in DOMAIN answered : answered[j].call \in calls}}

\* C1: if one retrieval call of a hybrid_search call raises (papers, startups or
\* vector) while the others return, hybrid_search does not raise: it returns the
\* blend of the candidates the other calls returned, and the sources of every
\* returned result name only backends that returned that document.
C1_SingleFailureDegrades ==
    (HybridEnded /\ Cardinality(failed) = 1) =>
        /\ pc = "done"
        /\ DocSet(blended) = AnsweredDocs({"papers", "startups", "vector"})
        /\ returned = Slice(blended, top_k)
        /\ \A k \in DOMAIN returned :
              /\ "bm25" \in Range(returned[k].sources)
                    => returned[k].doc_id \in AnsweredDocs({"papers", "startups"})
              /\ "ann" \in Range(returned[k].sources)
                    => returned[k].doc_id \in AnsweredDocs({"vector"})

----------------------------------------------------------------------------
(* C10 *)

\* C10: for top_k >= 0 hybrid_search returns the first min(top_k, n) entries of
\* the n-entry blended ranking, in ranking order, so that no omitted document
\* has a higher hybrid score than a returned one.
C10_TopKPrefix ==
    (pc = "done" /\ top_k >= 0) =>
        LET n == Len(blended)
            m == IF top_k < n THEN top_k ELSE n
        IN  /\ Len(returned) = m
            /\ \A i \in 1..m : returned[i] = blended[i]
            /\ \A i \in 1..m, j \in (m + 1)..n :
                  blended[j].score <= returned[i].score

\* a ranking of two documents with different scores, cut to the first
C10_Witness ==
    /\ pc = "done"
    /\ top_k = 1
    /\ Len(blended) = 2
    /\ Len(returned) = 1
    /\ blended[1].score > blended[2].score

----------------------------------------------------------------------------
(* Claims about the embedding model handle *)

Loaded(c) == thread[c].at \in {"encode", "done"}

\* C11: when several callers are in get_model before the model is loaded
\* (and no load fails), the model is constructed once and every caller
\* receives the same instance.
C11_LoadedOnce ==
    (\A i \in DOMAIN load_log : load_log[i].ok) =>
        /\ Len(load_log) <= 1
        /\ \A c1, c2 \in Callers :
              Loaded(c1) /\ Loaded(c2) => thread[c1].model = thread[c2].model

\* C13: a failed load is final: no call that begins after a load has failed
\* attempts the load again.
C13_LoadFailureIsFatal ==
    \A i, j \in DOMAIN load_log :
        (i < j /\ ~load_log[i].ok) => thread[load_log[j].by].began < i

----------------------------------------------------------------------------
(* Claims about the order of the retrieval requests *)

\* the retrieval calls whose result hybrid_search already holds
Ended == failed \cup {answered[i].call : i \in DOMAIN answered}

Issued == {issued[i].call : i \in DOMAIN issued}

\* C12: within one hybrid_search call the lexical and the vector request are
\* both outstanding before the result of either is awaited: no lexical call
\* has ended while the vector request is not yet issued.
C12_IssuedConcurrently ==
    Ended \cap {"papers", "startups"} # {} => "vector" \in Issued

----------------------------------------------------------------------------
(* Claims about the texts that are embedded *)

Prefixed(text) == text # << >> /\ text[1] \in {"query: ", "passage: "}

\* C14: every text passed to model.encode, in any operation, carries the
\* "query: " or the "passage: " prefix.
C14_EveryTextPrefixed ==
    \A i \in DOMAIN encoded :
        \A k \in DOMAIN encoded[i].texts : Prefixed(encoded[i].texts[k])

----------------------------------------------------------------------------
(* Claims about the highlights *)

HighlightEnded == pc \in {"highlight_returned", "highlight_fell_back"}

\* the sentence positions behind the returned list: the selected indices, or
\* the leading positions when the fallback sliced the list
Positions ==
    IF pc = "highlight_fell_back" THEN [i \in DOMAIN highlights |-> i]
    ELSE top_indices

IsStretchOf(x, text) ==
    \E a \in 1..(Len(text) + 1), b \in 0..Len(text) : SubSeq(text, a, b) = x

\* C19: on the normal and on the fallback path generate_highlights returns
\* at most max_highlights strings, each an extracted sentence of the document
\* (a stretch of its text), and no sentence position twice.
C19_HighlightsAreSentences ==
    HighlightEnded =>
        LET extracted == extract_sentences(document_text)
        IN  /\ Len(highlights) <= max_highlights
            /\ Len(Positions) = Len(highlights)
            /\ \A i \in DOMAIN highlights :
                  /\ Positions[i] \in DOMAIN extracted
                  /\ highlights[i] = extracted[Positions[i]]
                  /\ IsStretchOf(highlights[i], document_text)
            /\ \A i, j \in DOMAIN highlights :
                  Positions[i] = Positions[j] => i = j

\* the fallback cut a longer list of sentences down to max_highlights
C19_Witness ==
    /\ pc = "highlight_fell_back"
    /\ max_highlights = 1
    /\ Len(sentences) = 2
    /\ highlights = << sentences[1] >>

\* C20: when embedding succeeds generate_highlights returns exactly
\* min(max_highlights, n) sentences, n being the number of sentences
\* extract_sentences finds in the document: the ones of highest similarity,
\* in descending order of similarity.
C20_TopBySimilarity ==
    pc = "highlight_returned" =>
        LET n == Len(extract_sentences(document_text))
        IN  /\ Len(highlights) = Min({max_highlights, n})
            /\ Len(top_indices) = Len(highlights)
            /\ \A i \in DOMAIN highlights :
                  highlights[i] = extract_sentences(document_text)[top_indices[i]]
            /\ \A i, j \in DOMAIN top_indices :
                  i < j => similarities[top_indices[i]] >= similarities[top_indices[j]]
            /\ \A i \in DOMAIN top_indices :
                  \A k \in (1..n) \ Range(top_indices) :
                      similarities[k] <= similarities[top_indices[i]]

\* the second of two sentences is the more similar one and is the one returned
C20_Witness ==
    /\ pc = "highlight_returned"
    /\ max_highlights = 1
    /\ Len(sentences) = 2
    /\ similarities[2] > similarities[1]
    /\ highlights = << sentences[2] >>

----------------------------------------------------------------------------
(* Claims about the reranker *)

RerankEnded == pc \in {"rerank_returned", "rerank_fell_back"}

\* C15: when the rerank call fails, rerank_documents returns exactly
\* min(top_n, len(documents)) pairs: the first documents in their original
\* order, each with its own 'score' field (0.0 when it has none).
C15_FallbackPassesThrough ==
    pc = "rerank_fell_back" =>
        /\ Len(reranked) = Min({top_n, Len(documents)})
        /\ \A i \in DOMAIN reranked :
              /\ reranked[i].doc = documents[i]
              /\ reranked[i].score =
                    IF documents[i].score = Absent THEN 0 ELSE documents[i].score

\* the fallback cut two documents down to the first one
C15_Witness ==
    /\ pc = "rerank_fell_back"
    /\ Len(documents) = 2
    /\ top_n = 1
    /\ reranked = << [doc |-> documents[1], score |-> documents[1].score] >>
    /\ documents[1].score # Absent

\* a response that is a failure in the sense of the claim: the call or the
\* status failed, or the body is malformed
IsFailure(docs, resp) ==
    \/ resp.kind \in ResponseKinds
    \/ /\ resp.kind = "results"
       /\ \E k \in DOMAIN resp.results :
             \/ resp.results[k].index = Absent
             \/ resp.results[k].relevance_score = Absent
             \/ resp.results[k].index \notin 0..(Len(docs) - 1)

\* C16: every kind of failure of the rerank call (transport, status, malformed
\* body) takes the pass-through fallback, so that for a non-empty input and
\* top_n >= 1 the result is neither empty nor shortened.
C16_EveryFailureFallsBack ==
    (RerankEnded /\ documents # << >> /\ top_n >= 1
        /\ IsFailure(documents, response)) =>
        /\ pc = "rerank_fell_back"
        /\ Len(reranked) = Min({top_n, Len(documents)})

\* what the rerank API answers when it works as documented: no more results
\* than requested, each for a different input document, most relevant first
WellFormed(docs, n, resp) ==
    /\ resp.kind = "results"
    /\ Len(resp.results) <= RequestedTopN(docs, n)
    /\ \A k \in DOMAIN resp.results :
          /\ resp.results[k].index \in 0..(Len(docs) - 1)
          /\ resp.results[k].relevance_score # Absent
    /\ \A j, k \in DOMAIN resp.results :
          /\ resp.results[j].index = resp.results[k].index => j = k
          /\ j < k => resp.results[j].relevance_score >= resp.results[k].relevance_score

\* C17: when the call succeeds with a well-formed response, rerank_documents
\* returns at most top_n pairs (document, relevance_score), each document
\* being the input document at the reported index, in descending order of
\* relevance_score.
C17_SuccessFollowsResponse ==
    (pc = "rerank_returned" /\ WellFormed(documents, top_n, response)) =>
        /\ Len(reranked) <= top_n
        /\ Len(reranked) = Len(response.results)
        /\ \A k \in DOMAIN reranked :
              /\ reranked[k].doc = documents[response.results[k].index + 1]
              /\ reranked[k].score = response.results[k].relevance_score
        /\ \A j, k \in DOMAIN reranked :
              j < k => reranked[j].score >= reranked[k].score

\* the second document is reported first, as the more relevant one
C17_Witness ==
    /\ pc = "rerank_returned"
    /\ WellFormed(documents, top_n, response)
    /\ Len(reranked) = 2
    /\ reranked[1].doc = documents[2]
    /\ reranked[1].score > reranked[2].score

\* C18: every degraded path of hybrid_search (a retrieval call failed) and of
\* rerank_documents (pass-through) has written its marker to the log before
\* the result is returned, and a reranked result carries no such marker.
C18_FallbackIsMarked ==
    /\ \A name \in failed : << "error", name >> \in Range(log)
    /\ pc = "rerank_fell_back" =>
          /\ << "error", "rerank" >> \in Range(log)
          /\ << "warning", "fallback" >> \in Range(log)
    /\ pc = "rerank_returned" => << "warning", "fallback" >> \notin Range(log)

\* hybrid_search returned what the lexical calls found after the vector call
\* had failed
C18_Witness ==
    /\ pc = "done"
    /\ failed = {"vector"}
    /\ returned # << >>
    /\ << "error", "vector" >> \in Range(log)

----------------------------------------------------------------------------
(* Claims about the highlight fallback *)

\* C21, as stated: when embedding raises and the text has at least one
\* extracted sentence, generate_highlights returns a list that is not empty.
C21_FallbackNeverEmpty ==
    (pc = "highlight_fell_back" /\ extract_sentences(document_text) # << >>) =>
        highlights # << >>

\* C21, amended: when embedding the query or the sentences raises,
\* generate_highlights returns (it does not raise) the first
\* min(max_highlights, n) extracted sentences in document order; the list is
\* not empty when the text has an extracted sentence and max_highlights >= 1.
C21_FallbackFirstSentences ==
    /\ pc # "except" \/ ENABLED HighlightFallback
    /\ pc = "highlight_fell_back" =>
          LET extracted == extract_sentences(document_text)
          IN  /\ Len(highlights) = Min({max_highlights, Len(extracted)})
              /\ \A i \in DOMAIN highlights : highlights[i] = extracted[i]
              /\ (extracted # << >> /\ max_highlights >= 1) => highlights # << >>

\* the encode call on the sentences raised; the first of two sentences is
\* returned
C21_Witness ==
    /\ pc = "highlight_fell_back"
    /\ Len(encoded) = 2
    /\ max_highlights = 1
    /\ Len(extract_sentences(document_text)) = 2
    /\ highlights = << extract_sentences(document_text)[1] >>

----------------------------------------------------------------------------
(* Claims about several vector hits of one document *)

\* the input entry whose fields a result carries: the lexical entry of the
\* doc_id (the last one, should the lexical list hold several), else its first
\* vector entry
Introduced(d) ==
    IF d \in DocSet(bm25_results)
    THEN bm25_results[Max(Occurrences(bm25_results, d))]
    ELSE ann_results[Min(Occurrences(ann_results, d))]

\* C28: when a doc_id occurs more than once in the vector list, its ann_score
\* is the normalized score of its last occurrence, and its title (and year)
\* stay those of the entry that introduced the doc_id, which no vector hit
\* of a known doc_id replaces.
C28_LastVectorHitWins ==
    BlendReturned =>
        \A d \in DocSet(ann_results) :
            Cardinality(Occurrences(ann_results, d)) > 1 =>
                /\ ResultOf(d).ann_score =
                      MinMax(ann_results, Max(Occurrences(ann_results, d)))
                /\ ResultOf(d).title = Introduced(d).title
                /\ ResultOf(d).year = Introduced(d).year

\* the first vector hit of a document scores higher than its last one, and
\* the document keeps the first hit's title with the last hit's score
C28_Witness ==
    /\ BlendReturned
    /\ \E d \in DocSet(ann_results) :
          LET first == Min(Occurrences(ann_results, d))
              last == Max(Occurrences(ann_results, d))
          IN  /\ first < last
              /\ d \notin DocSet(bm25_results)
              /\ MinMax(ann_results, first) > MinMax(ann_results, last)
              /\ ResultOf(d).ann_score = MinMax(ann_results, last)
              /\ ResultOf(d).title = ann_results[first].title

----------------------------------------------------------------------------
(* Claims about the order and the shape of the requests of hybrid_search *)

\* C29: in every hybrid_search call the query is embedded before any retrieval
\* request is issued: while embed_query has not returned nothing is issued,
\* and when embed_query raises hybrid_search ends raised with no lexical and
\* no vector request issued and nothing returned.
C29_EmbedBeforeRetrieval ==
    /\ [](pc = "embed" => issued = << >>)
    /\ [][pc = "embed" =>
             /\ issued' = << >>
             /\ pc' \in {"papers", "raised"}
             /\ pc' = "raised" => (returned' = << >> /\ answered' = << >>)]_vars
    /\ [][issued' # issued => pc \in {"papers", "startups", "vector"}]_vars

\* embed_query raised: the call has ended with nothing issued
C29_Witness ==
    /\ pc = "raised"
    /\ issued = << >>
    /\ answered = << >>
    /\ failed = {}
    /\ Searches(source_filter, "papers")


\* source_filter is None or the empty list
FilterAbsentOrEmpty == source_filter = NoFilter \/ source_filter = << >>

Wanted(name) == FilterAbsentOrEmpty \/ name \in Range(source_filter)

\* the requests to one backend
RequestsTo(name) == {i \in DOMAIN issued : issued[i].call = name}

\* the vector request carries source_filter exactly when that is non-empty and
\* year_gte exactly when that is set and non-zero
VectorRestricted(r) ==
    /\ r.source_in = (IF FilterAbsentOrEmpty THEN NoFilter ELSE source_filter)
    /\ r.year_gte = (IF year_gte = NoYear \/ year_gte = 0 THEN NoYear ELSE year_gte)

RequestsFollowFilter ==
    /\ RequestsTo("papers") # {} <=> Wanted("papers")
    /\ RequestsTo("startups") # {} <=> Wanted("startups")
    /\ RequestsTo("vector") # {}
    /\ \A i \in RequestsTo("vector") : VectorRestricted(issued[i])

\* C30 as stated: in every hybrid_search call, once it has ended, the papers
\* search was issued iff source_filter is absent, empty or contains "papers",
\* the startups search likewise, and the vector search was issued with its
\* source and year restrictions.
C30_EveryCallIssues == HybridEnded => RequestsFollowFilter

\* C30: in every hybrid_search call in which embed_query returns, by the time
\* the results are blended the papers search was issued iff source_filter is
\* absent, empty or contains "papers", the startups search likewise, and the
\* vector search was issued, with a source restriction equal to source_filter
\* exactly when source_filter is non-empty and a year restriction exactly when
\* year_gte is set and non-zero; a call in which embed_query raises issues
\* nothing, and no request is issued twice or to a source the filter excludes.
C30_RequestsFollowFilter ==
    /\ pc \in {"blend", "done"} => RequestsFollowFilter
    /\ (pc = "raised" /\ ~RequestsFollowFilter) => issued = << >>
    /\ \A name \in {"papers", "startups"} :
          RequestsTo(name) # {} => Wanted(name)
    /\ \A name \in {"papers", "startups", "vector"} :
          Cardinality(RequestsTo(name)) <= 1
    /\ \A i \in RequestsTo("vector") : VectorRestricted(issued[i])

\* a call filtered to papers from year 1 on has returned: one papers request,
\* no startups request, and a vector request restricted to both
C30_Witness ==
    /\ pc = "done"
    /\ source_filter = << "papers" >>
    /\ year_gte = 1
    /\ RequestsTo("papers") # {}
    /\ RequestsTo("startups") = {}
    /\ \E i \in RequestsTo("vector") :
          issued[i].source_in = << "papers" >> /\ issued[i].year_gte = 1

----------------------------------------------------------------------------
(* Claims about chunk_text *)

ChunkReturned == pc = "chunk_returned"

ChunkBlank == \A i \in DOMAIN input_text : input_text[i] = " "

\* the sentences chunk i joins
Joined(i) == SubSeq(chunk_sentences, chunks[i].span[1], chunks[i].span[2])

\* the sentences at the end of chunk i - 1 with which chunk i begins
Overlap(i) == SubSeq(chunk_sentences, chunks[i].span[1], chunks[i - 1].span[2])

\* C23: every chunk that chunk_text emits, other than the last one, has a text
\* of at most TARGET_CHUNK_CHARS characters.
C23_ChunksWithinTarget ==
    ChunkReturned =>
        \A i \in DOMAIN chunks :
            i < Len(chunks) => ChunkLen(chunks[i].text) <= TARGET_CHUNK_CHARS

\* C24 as stated: when chunk_text emits more than one chunk, every chunk after
\* the first begins with at least one sentence that also ends the preceding
\* chunk, the shared sentences being within STRIDE_CHARS together.
C24_ChunksShareSentence ==
    ChunkReturned =>
        \A i \in DOMAIN chunks :
            i > 1 =>
                /\ Overlap(i) # << >>
                /\ ChunkLen(Join(Overlap(i))) <= STRIDE_CHARS

\* C24: every chunk after the first begins with the trailing sentences of the
\* preceding chunk that the stride step kept, followed by at least one new
\* sentence: the kept sentences are at most STRIDE_CHARS long together, one
\* more sentence would reach STRIDE_CHARS, and at least one sentence is kept
\* whenever the last sentence of the preceding chunk is shorter than
\* STRIDE_CHARS (a longer last sentence leaves the two chunks without a shared
\* sentence).
C24_ChunksShareKeptSentences ==
    ChunkReturned =>
        \A i \in DOMAIN chunks :
            i > 1 =>
                LET lo == chunks[i].span[1]
                    before == chunks[i - 1].span
                IN  /\ chunks[i].text = Join(Joined(i))
                    /\ chunks[i - 1].text = Join(Joined(i - 1))
                    /\ before[1] <= lo
                    /\ lo <= before[2] + 1
                    /\ chunks[i].span[2] > before[2]
                    /\ ChunkLen(Join(Overlap(i))) <= STRIDE_CHARS
                    /\ lo > before[1] =>
                          ChunkLen(Join(SubSeq(chunk_sentences, lo - 1, before[2])))
                              >= STRIDE_CHARS
                    /\ ChunkLen(chunk_sentences[before[2]]) < STRIDE_CHARS
                          => Overlap(i) # << >>

\* two chunks of two sentences each, the second beginning with the sentence
\* that ends the first
C24_Witness ==
    /\ ChunkReturned
    /\ Len(chunks) = 2
    /\ chunks[1].span = << 1, 2 >>
    /\ chunks[2].span = << 2, 3 >>
    /\ chunks[2].text = chunk_sentences[2] \o << " " >> \o chunk_sentences[3]

\* C25: for every non-blank text the chunks, in chunk_index order 0, 1, 2, ...,
\* cover the whole text: every sentence of split_into_sentences is in at least
\* one chunk, each chunk is a run of consecutive sentences in their order, and
\* the runs go forward through the text without a gap.
C25_ChunksCoverText ==
    (ChunkReturned /\ ~ChunkBlank) =>
        /\ chunk_sentences = split_into_sentences(input_text)
        /\ chunks # << >>
        /\ \A k \in DOMAIN chunk_sentences :
              \E i \in DOMAIN chunks :
                  chunk_sentences[k] \in Range(split_into_sentences(chunks[i].text))
        /\ \A i \in DOMAIN chunks :
              /\ chunks[i].chunk_index = i - 1
              /\ chunks[i].span[1] <= chunks[i].span[2]
              /\ chunks[i].text = Join(Joined(i))
              /\ split_into_sentences(chunks[i].text) = Joined(i)
        /\ chunks[1].span[1] = 1
        /\ chunks[Len(chunks)].span[2] = Len(chunk_sentences)
        /\ \A i \in DOMAIN chunks :
              i > 1 =>
                 /\ chunks[i].span[1] <= chunks[i - 1].span[2] + 1
                 /\ chunks[i].span[1] >= chunks[i - 1].span[1]
                 /\ chunks[i].span[2] > chunks[i - 1].span[2]

\* three chunks over four sentences, none shared
C25_Witness ==
    /\ ChunkReturned
    /\ Len(chunk_sentences) = 4
    /\ Len(chunks) = 3
    /\ chunks[2].span = << 2, 3 >>
    /\ chunks[3].span = << 4, 4 >>

\* C26: chunk_text on an empty or whitespace-only text returns zero chunks
\* and raises no error: it returns at the guard.
C26_BlankGivesNoChunks ==
    (ChunkBlank /\ pc # "chunk_call") =>
        /\ ChunkReturned
        /\ chunks = << >>
        /\ chunk_sentences = << >>

\* a text of two spaces has been chunked
C26_Witness ==
    /\ ChunkReturned
    /\ input_text = << " ", " " >>
    /\ chunks = << >>

\* C27: for every non-blank text shorter than TARGET_CHUNK_CHARS chunk_text
\* returns exactly one chunk, with chunk_index 0, whose text is all sentences
\* joined by single spaces, and it never closes a chunk inside the loop, so
\* the stride step is never executed.
C27_ShortTextOneChunk ==
    (~ChunkBlank /\ ChunkLen(input_text) < TARGET_CHUNK_CHARS) =>
        /\ pc = "chunk_loop" => (chunks = << >> /\ chunk_index = 0)
        /\ ChunkReturned =>
              /\ Len(chunks) = 1
              /\ chunks[1].chunk_index = 0
              /\ chunks[1].text = Join(split_into_sentences(input_text))

\* a text of three sentences with a double space, shorter than the target,
\* came back as one chunk that differs from the text
C27_Witness ==
    /\ ChunkReturned
    /\ ChunkLen(input_text) < TARGET_CHUNK_CHARS
    /\ Len(chunk_sentences) = 3
    /\ Len(chunks) = 1
    /\ chunks[1].text # input_text

====
